---- MODULE Spec2Model ----
(***************************************************************************)
(* Model of class ldapReader (src/ldapReader.h): the paged-search state    *)
(* machine query() / _query() / fetch() / getAttribute() together with the *)
(* directory server it talks to through libldap, the bind calls, and the   *)
(* release of attribute value sets by clearBerval().                       *)
(*                                                                         *)
(* Pointers are records with a `null` field.  An LDAPMessage chain (one    *)
(* page) holds the server entries first+1 .. first+len of filter f;        *)
(* `freed` says that its head message was released by ldap_memfree.  A     *)
(* cursor (`entry`) carries the length of the chain it points into and its *)
(* position in it; the chain is the one `result` points to unless `stale`  *)
(* is set.  A cookie is a sequence of bytes.  A value set the caller holds *)
(* is a pointer to a block of `mem`.                                       *)
(*                                                                         *)
(* Specifications: Spec, the search calls of a caller that passes the      *)
(* attribute names of main.cpp, or none; SpecNames, those of a caller with *)
(* long attribute lists; SpecFrame, those of a caller with two search      *)
(* bases; SpecBind, the bind calls on a reader built by any of the four    *)
(* constructors; SpecRelease, a caller that keeps the value sets           *)
(* getAttribute() returns and releases them with clearBerval().  The       *)
(* specifications differ in the calls the caller makes and the arguments   *)
(* it passes, not in what the reader's memory, the server, the transport   *)
(* and the allocator may do.  No search call reads or writes a bind field, *)
(* and clearBerval() is static.                                            *)
(***************************************************************************)
EXTENDS Integers, Sequences, FiniteSets, TLC

\* ---------------------------------------------------------------- bounds
MaxEntries  == 3      \* largest server-side result
MaxPage     == 2      \* largest page size the caller sets
MaxFetch    == 4      \* fetch() calls logged per query
MaxSets     == 2      \* attribute value sets a caller holds

\* ------------------------------------------------------ program constants
_DEFAULT_LDAP_VERSION == 3
_DEFAULT_PAGE_SIZE == 1000
_DEFAULT_MAX_NUMBER_OF_ATTRIBUTES == 50

\* The version argument of a constructor: 0 (NULL) keeps the default of
\* libldap, which is version 2; 2 and 3 are set with ldap_set_option.  Any
\* other value makes the constructor throw.
Versions  == {0, 2, _DEFAULT_LDAP_VERSION}

\* The filter and the base a caller passes (those of main.cpp).
Filters   == {"(objectClass=user)"}
Bases     == {"ou=SSO,dc=example,dc=org"}
\* The bases of a caller that searches a second subtree as well.
Bases2    == Bases \cup {"ou=users,dc=example,dc=org"}
\* Cookie bytes: the zero byte and a non-zero byte (strlen tells no more).
Bytes     == {0, 1}
\* setPageSize() takes any int: the smallest page, the largest the caller
\* sets, and 0, which stands for every size below 1.
PageSizes == {0, 1, MaxPage}
NULL      == "NULL"    \* null char* for searchFilter / searchBase
\* The bind identities and secrets a caller passes (the first of each is
\* that of main.cpp).
Users     == {"cn=ldapbinduser", "cn=user1"}
Passes    == {"Password", "Passw0rd"}
\* What the server and the transport make of one bind handshake.
BindOutcomes == {"success", "invalidCredentials", "serverDown"}
Anonymous == "anonymous"

\* A berval** as getAttribute() returns it and the caller holds it: NULL
\* (the attribute is absent), or the address of a block; released: the
\* caller has passed this pointer to clearBerval().
NullSet   == [null |-> TRUE, blk |-> 0, released |-> FALSE]
\* The sizes of the value arrays ldap_get_values_len returns; 0: NULL.
\* clearBerval() releases every value of an array, however many.
ValueCounts == {0, 1}
\* What a release of released memory does: the allocator does not notice
\* and nothing visible changes, or it detects the double free and aborts.
DoubleFree == {"unnoticed", "abort"}
\* What a read of a released LDAPMessage yields: the message as it was;
\* a null link; the message with its type overwritten by the allocator, so
\* that it no longer counts as an entry and is passed over; the message
\* that was allocated in its place (the head of the current result); or a
\* fault that kills the process.
StaleRead == {"intact", "null", "skipped", "reused", "crash"}

Min(a, b) == IF a < b THEN a ELSE b

\* A cookie the server hands out: an opaque tag byte followed by the offset
\* at which the next page starts.  The empty sequence is the empty cookie.
Cookies == {<<>>} \cup {<<t, k>> : t \in Bytes, k \in 0..MaxEntries}

\* A berval that is no byte sequence: bv_len is huge (bv_val anything), or
\* bv_val is NULL or wild with bv_len > 0.
Huge       == <<"bv_len huge">>
Unreadable == <<"bv_val unreadable">>

\* What the never-initialised pageCookie can hold at construction: zeroes
\* (an empty cookie), bytes the server takes for the cookie of a second
\* page, bytes it rejects, or a length and an address that are no byte
\* sequence.  The server does not read the tag byte.
Garbage == {<<>>, <<0, 1>>, <<0, MaxEntries>>, Huge, Unreadable}

\* attrNum values a caller passes: those of query(filter, base) and of
\* main.cpp; those of a caller with long attribute lists; those of a
\* caller whose lists are too long.
ExampleNums == {0, 3}
ListNums == {0, _DEFAULT_MAX_NUMBER_OF_ATTRIBUTES, _DEFAULT_MAX_NUMBER_OF_ATTRIBUTES + 1}
LongNums == {0, _DEFAULT_MAX_NUMBER_OF_ATTRIBUTES + 1}
\* The number of names a caller passes after attrNum: as many, or, as
\* main.cpp does with attrNum 3, one less.
NamesPassed(attrNum) == IF attrNum = 3 THEN {2} ELSE {attrNum}
\* What va_arg and strlen make of an argument that was not passed: bytes
\* that read as a name, or a fault that kills the process.
VaArg == {"read", "crash"}
\* A list of n names the caller passed (1: a name of the caller).
AttrList(n) == [i \in 1..n |-> 1]
\* The list query() builds from attrNum arguments of which the caller
\* passed `names` (0: what was read in place of a name not passed).
ReadNames(attrNum, names) == [i \in 1..attrNum |-> IF i <= names THEN 1 ELSE 0]

NullMsg   == [null |-> TRUE, f |-> NULL, first |-> 0, len |-> 0, freed |-> FALSE]
NullEntry == [null |-> TRUE, len |-> 0, pos |-> 0, stale |-> FALSE]
\* The chain ldap_search_ext_s stores in result.
Msg(f, first, len) == [null |-> FALSE, f |-> f, first |-> first, len |-> len,
                       freed |-> FALSE]

\* How the server treats the paged-results control: it pages, it rejects
\* the critical control as unsupported, or it ignores the control and
\* answers with the whole result and no response control.
Paging == {"paged", "unsupported", "ignored"}

\* What the server makes of one search request it has accepted: it fills
\* the page ("full"); it answers with an empty page that only carries a
\* continuation cookie ("empty"); it sends the entries of the page and
\* then an error result such as sizeLimitExceeded ("limit"); or the first
\* of its response controls does not decode as a page response: the decode
\* fails before the cookie ("badctl"), at the cookie ("badcookie"), or the
\* control has no value to decode ("noval").
Modes == {"full", "empty", "limit", "badctl", "badcookie", "noval"}

\* What the environment decides for one search request: whether the
\* transport delivers an answer, the tag byte of the cookie the server
\* builds, and the server's mode.  A request the transport drops has no
\* answer to choose, and only a page response carries the cookie built.
Env == {e \in [net : BOOLEAN, tag : Bytes, mode : Modes] :
            /\ ~e.net => (e.tag = 0 /\ e.mode = "full")
            /\ e.mode \notin {"full", "empty"} => e.tag = 0}
\* The choice recorded for a call that sends no request.
Env0 == [net |-> TRUE, tag |-> 0, mode |-> "full"]

VARIABLES
    \* ---- fields of ldapReader
    version,
    searchFilter, searchBase, requestedAttributes, pageSize,
    pageCookie, result, entry, isMorePageAvailable,
    isBinded, isCredExist, bindUser, bindCred,
    \* ---- the heap
    leaked,            \* a page other than result is allocated, not released
    mem,               \* mem[b]: the b-th block that held a value array
    \* ---- the directory server
    srvCount,          \* srvCount[f]: number of entries matching filter f
    srvPaging,         \* how the server treats the paged-results control
    srvIdentity,       \* the identity the server holds for the connection
    \* ---- the caller
    heap,              \* heap[i]: the i-th value set the caller holds
    \* ---- observation of the run
    cookieSet,         \* pageCookie is the cookie of the last page response
    lastRequests,      \* the search requests sent by the last call
    lastHandshakes,    \* the bind handshakes sent by the last call
    lastAnswer,        \* the answer to the most recent handshake sent
    lastOp, lastRet,   \* last public call and what it returned / threw
    lastBind,          \* the last bind call: overload, arguments, answer
    lastRelease,       \* the last clearBerval(): the set passed, as it was
    preBind,           \* bind state at entry of the last bind call
    lastAttrNum,       \* attrNum of the last query() call
    lastNames,         \* number of names passed to the last query() call
    pre,               \* reader state at entry of the last fetch()
    preReject,         \* reader state at entry of the last query(), if it
                       \* was rejected: <<state>>, else <<>>
    q,                 \* bookkeeping of the query in progress
    log                \* fetch() calls since the last query():
                       \* <<ret, requests sent>>

vars == <<version, searchFilter, searchBase, requestedAttributes, pageSize,
          pageCookie, result, entry, isMorePageAvailable, srvCount,
          cookieSet, lastRequests, lastOp, lastRet,
          lastAttrNum, lastNames, pre, preReject, q, log, srvPaging, leaked,
          isBinded, isCredExist, bindUser, bindCred, srvIdentity,
          lastHandshakes, lastAnswer, lastBind, preBind, heap, mem,
          lastRelease>>

\* The variables the search calls read and write, and those the bind calls
\* read and write; lastOp and lastRet are written by both, version by none.
searchVars == <<searchFilter, searchBase, requestedAttributes, pageSize,
                pageCookie, result, entry, isMorePageAvailable, srvCount,
                srvPaging, leaked, cookieSet, lastRequests, lastAttrNum,
                lastNames, pre, preReject, q, log>>
bindVars   == <<isBinded, isCredExist, bindUser, bindCred, srvIdentity,
                lastHandshakes, lastAnswer, lastBind, preBind>>
heapVars   == <<heap, mem, lastRelease>>

\* The reader's fields and the run's counters as one record, on which the
\* methods below operate.
St == [searchFilter |-> searchFilter, searchBase |-> searchBase,
       requestedAttributes |-> requestedAttributes, pageSize |-> pageSize,
       pageCookie |-> pageCookie, cookieSet |-> cookieSet,
       result |-> result, entry |-> entry,
       isMorePageAvailable |-> isMorePageAvailable, leaked |-> leaked,
       reqs |-> <<>>, resps |-> <<>>, ret |-> "none"]

\* ------------------------------------------------------------- the server
\* A continuation cookie is accepted if it is empty (first page) or names
\* an offset inside the result of the search.
SrvValid(c, f) ==
    \/ c = <<>>
    \/ /\ Len(c) = 2
       /\ c[2] < srvCount[f]

SrvOffset(c) == IF c = <<>> THEN 0 ELSE c[2]

\* ldap_search_ext_s and the response controls as seen by the caller: the
\* transport may fail; a server without paging rejects the critical control
\* or answers with the whole result and no control (or, at a limit, with
\* entries and an error result); a paging server rejects a cookie it does
\* not know; otherwise it returns the next page (at most `size` entries)
\* and the cookie of the page after it, empty when nothing is left.  An
\* error result that follows entries is "srverr" with those entries.
Server(req, e) ==
    IF ~e.net THEN [kind |-> "neterr", first |-> 0, len |-> 0, cookie |-> <<>>]
    ELSE IF srvPaging = "unsupported"
    THEN [kind |-> "srverr", first |-> 0, len |-> 0, cookie |-> <<>>]
    ELSE IF srvPaging = "ignored"
    THEN [kind |-> IF e.mode = "limit" THEN "srverr" ELSE "noctl",
          first |-> 0,
          len |-> IF e.mode = "limit" THEN Min(req.size, srvCount[req.filter])
                  ELSE srvCount[req.filter],
          cookie |-> <<>>]
    ELSE IF ~SrvValid(req.cookie, req.filter)
    THEN [kind |-> "srverr", first |-> 0, len |-> 0, cookie |-> <<>>]
    ELSE LET n    == srvCount[req.filter]
             off  == SrvOffset(req.cookie)
             rem  == n - off
             d    == IF e.mode = "empty" /\ rem > 0 THEN 0 ELSE Min(req.size, rem)
             noff == off + d
         IN [kind   |-> IF e.mode = "limit" THEN "srverr"
                        ELSE IF e.mode \in {"badctl", "badcookie", "noval"}
                        THEN e.mode
                        ELSE IF d = 0 /\ rem > 0 THEN "ok-empty" ELSE "ok",
             first  |-> off, len |-> d,
             cookie |-> IF noff < n THEN <<e.tag, noff>> ELSE <<>>]

\* ------------------------------------------------------------- the reader
\* strlen(bv_val): the bytes before the first zero byte.
RECURSIVE strlen(_)
strlen(c) == IF c = <<>> \/ Head(c) = 0 THEN 0 ELSE 1 + strlen(Tail(c))

\* _query(), the test that sets isMorePageAvailable.
MoreAvailable(c) == strlen(c) > 0

\* What _preparePageControl() and _query() throw.
Errors == {"ControlError", "SearchError", "ParseError"}

\* ldap_create_page_control(connection, pageSize, &pageCookie, ...): a
\* page size below 1 is a parameter error; a cookie that cannot be read
\* kills the process inside the encoder; one of a huge length is an
\* encoding error.
ldap_create_page_control(ps, c) ==
    IF ps < 1 THEN "ParamError"
    ELSE IF c = Unreadable THEN "crash"
    ELSE IF c = Huge THEN "EncodingError"
    ELSE "ok"

\* _prepareControls() / _preparePageControl(): throws what the encoder
\* reports, before anything is sent.
_preparePageControl(s) ==
    LET rc == ldap_create_page_control(s.pageSize, s.pageCookie)
    IN  [s EXCEPT !.ret = IF rc = "ok" THEN "ok"
                          ELSE IF rc = "crash" THEN "crash"
                          ELSE "ControlError"]

\* _query(): one page execution.  The control is built first.
\* ldap_search_ext_s then overwrites result, so a cursor that is set from now
\* on points into a chain that is not result, and the chain result pointed
\* to stays allocated: fetch() releases nothing, query() only the head
\* message of the chain (ldap_memfree).  On a connection that is not
\* version 3 the search is refused before it is sent and result is NULL.
\* An error result leaves in result the entries that came before it.
\* A response without controls leaves returnedControls NULL and the read of
\* returnedControls[0] is a load from address 0: the process is killed, as
\* it is inside ldap_parse_pageresponse_control by a first control without
\* value.  A first control that does not decode makes that function fail
\* after result was written: the page is kept, isMorePageAvailable is as
\* before, and pageCookie is as before or, when the decode fails at the
\* cookie, empty.  The OID of the control is not looked at: any first
\* control whose value decodes is taken for the page response.
_query(s, e) ==
    LET p    == _preparePageControl(s)
        req  == [filter |-> s.searchFilter, base |-> s.searchBase,
                 attrs |-> s.requestedAttributes,
                 cookie |-> s.pageCookie, size |-> s.pageSize]
        resp == Server(req, e)
        page == Msg(s.searchFilter, resp.first, resp.len)
        s0   == [s EXCEPT !.leaked = @ \/ ~s.result.null,
                          !.entry = IF @.null THEN @ ELSE [@ EXCEPT !.stale = TRUE]]
        s1   == [s0 EXCEPT !.reqs = Append(@, req),
                           !.resps = Append(@, resp.kind)]
    IN  IF p.ret # "ok" THEN p
        ELSE IF version # _DEFAULT_LDAP_VERSION
        THEN [s0 EXCEPT !.result = NullMsg, !.ret = "SearchError"]
        ELSE IF resp.kind = "neterr"
        THEN [s1 EXCEPT !.result = NullMsg, !.ret = "SearchError"]
        ELSE IF resp.kind = "srverr"
        THEN [s1 EXCEPT !.result = page, !.ret = "SearchError"]
        ELSE IF resp.kind \in {"noctl", "noval"}
        THEN [s1 EXCEPT !.result = page, !.ret = "crash"]
        ELSE IF resp.kind = "badctl"
        THEN [s1 EXCEPT !.result = page, !.ret = "ParseError"]
        ELSE IF resp.kind = "badcookie"
        THEN [s1 EXCEPT !.result = page, !.pageCookie = <<>>,
                        !.cookieSet = FALSE, !.ret = "ParseError"]
        ELSE [s1 EXCEPT !.result = page,
                        !.pageCookie = resp.cookie,
                        !.cookieSet = TRUE,
                        !.isMorePageAvailable = MoreAvailable(resp.cookie),
                        !.ret = "ok"]

\* TooMany with the bound taken as exclusive.
TooMany_AtBound(attrNum) == attrNum >= _DEFAULT_MAX_NUMBER_OF_ATTRIBUTES

\* query(): the check of the number of requested attributes.
TooMany(attrNum) == attrNum > _DEFAULT_MAX_NUMBER_OF_ATTRIBUTES

\* query(searchFilter, searchBase, attrNum, ...).  Filter and base are
\* stored before the attribute check.  The loop reads attrNum arguments
\* with va_arg whatever the caller passed: an argument that was not passed
\* is read from wherever the next argument would be (va).
\* ldap_memfree(result) releases the
\* head of the old chain and leaves result and entry as they are: when
\* _query() throws before the search, result keeps pointing at the released
\* head, and the next query() releases it a second time (df).  Otherwise
\* _query() overwrites result.
query(s, f, b, attrNum, names, e, df, va) ==
    LET s0 == [s EXCEPT !.searchFilter = f, !.searchBase = b]
    IN  IF attrNum > 0 /\ TooMany(attrNum)
        THEN [s0 EXCEPT !.ret = "TooManyAttributes"]
        ELSE IF attrNum > names /\ va = "crash"
        THEN [s0 EXCEPT !.ret = "crash"]
        ELSE LET s1 == IF attrNum > 0
                       THEN [s0 EXCEPT !.requestedAttributes =
                                           ReadNames(attrNum, names)]
                       ELSE s0
             IN  IF s1.result.null THEN _query(s1, e)
                 ELSE IF s1.result.freed /\ df = "abort"
                 THEN [s1 EXCEPT !.ret = "crash"]
                 ELSE _query([s1 EXCEPT !.result.freed = TRUE], e)

\* A cursor is stale when the chain it points into is not the current
\* result: query() released the head of that chain and kept the cursor.
Stale(en) == ~en.null /\ en.stale

\* The cursor points at a released message: it is on the head of a chain
\* whose head query() has released.
Dangling(en, res) == ~en.null /\ en.pos = 1 /\ (en.stale \/ res.freed)

\* ldap_first_entry(connection, result): the head of the chain if it is an
\* entry, else the first entry after it.  A result whose head was released
\* is read from released memory (ub).
ldap_first_entry(msg, ub) ==
    IF msg.freed /\ ub = "null" THEN NullEntry
    ELSE IF msg.freed /\ ub = "skipped"
    THEN IF msg.len >= 2
         THEN [null |-> FALSE, len |-> msg.len, pos |-> 2, stale |-> FALSE]
         ELSE NullEntry
    ELSE IF msg.len = 0 THEN NullEntry
    ELSE [null |-> FALSE, len |-> msg.len, pos |-> 1, stale |-> FALSE]

\* ldap_next_entry(connection, entry) when entry points into a live chain.
ChainNext(en) ==
    IF en.pos < en.len THEN [en EXCEPT !.pos = @ + 1] ELSE NullEntry

\* ldap_next_entry(connection, this->entry) as fetch() calls it.  A
\* dangling cursor is read from released memory (ub): the read yields the
\* old link, a null link, or the link of the head of the current result,
\* which was allocated in its place.
ldap_next_entry(en, res, ub) ==
    IF Dangling(en, res) /\ ub = "null" THEN NullEntry
    ELSE IF Dangling(en, res) /\ ub = "reused"
    THEN ChainNext([null |-> FALSE, len |-> res.len, pos |-> 1,
                    stale |-> FALSE])
    ELSE ChainNext(en)

\* The read of released memory that fetch() makes, if any, faults.
Faults(s, ub) ==
    /\ ub = "crash"
    /\ \/ s.entry.null /\ s.result.freed
       \/ Dangling(s.entry, s.result)

RECURSIVE fetch(_, _, _)

\* fetch() without the test of isMorePageAvailable: a page is requested
\* whenever the current one is exhausted.
fetch_AlwaysNextPage(s, envs, ub) ==
    IF s.result.null THEN [s EXCEPT !.ret = "false"]
    ELSE IF Faults(s, ub) THEN [s EXCEPT !.ret = "crash"]
    ELSE IF s.entry.null
    THEN LET fe == ldap_first_entry(s.result, ub)
         IN  [s EXCEPT !.entry = fe, !.ret = IF fe.null THEN "false" ELSE "true"]
    ELSE LET ne == ldap_next_entry(s.entry, s.result, ub)
             s1 == [s EXCEPT !.entry = ne]
         IN  IF ~ne.null THEN [s1 EXCEPT !.ret = "true"]
             ELSE LET s2 == _query(s1, Head(envs))
                  IN  IF s2.ret # "ok" THEN s2
                      ELSE fetch(s2, Tail(envs), "intact")

\* fetch()
fetch(s, envs, ub) ==
    IF s.result.null THEN [s EXCEPT !.ret = "false"]
    ELSE IF Faults(s, ub) THEN [s EXCEPT !.ret = "crash"]
    ELSE IF s.entry.null
    THEN LET fe == ldap_first_entry(s.result, ub)
         IN  [s EXCEPT !.entry = fe, !.ret = IF fe.null THEN "false" ELSE "true"]
    ELSE LET ne == ldap_next_entry(s.entry, s.result, ub)
             s1 == [s EXCEPT !.entry = ne]
         IN  IF ~ne.null THEN [s1 EXCEPT !.ret = "true"]
             ELSE IF s.isMorePageAvailable
             THEN LET s2 == _query(s1, Head(envs))
                  IN  IF s2.ret # "ok" THEN s2
                      ELSE fetch(s2, Tail(envs), "intact")
             ELSE [s1 EXCEPT !.ret = "false"]

\* getAttribute(attributeName): throws when no cursor is set, else has
\* ldap_get_values_len read the attribute of the entry at the cursor; a
\* dangling cursor is read from released memory (ub).
getAttribute(s, ub) ==
    IF s.entry.null THEN [s EXCEPT !.ret = "NoCurrentEntry"]
    ELSE IF Dangling(s.entry, s.result) /\ ub = "crash"
    THEN [s EXCEPT !.ret = "crash"]
    ELSE [s EXCEPT !.ret = "values"]

\* ---------------------------------------------------------------- binding
\* The bind fields of the reader and the server's view of the connection as
\* one record, on which the bind methods operate.
Bd == [isBinded |-> isBinded, isCredExist |-> isCredExist,
       bindUser |-> bindUser, bindCred |-> bindCred,
       srvIdentity |-> srvIdentity, answer |-> lastAnswer,
       hs |-> <<>>, ret |-> "none"]

\* _setCred() that keeps the credentials it already holds.
_setCred_KeepOld(s, user, pass) ==
    IF s.isCredExist THEN s
    ELSE [s EXCEPT !.bindUser = user, !.bindCred = pass, !.isCredExist = TRUE]

\* _setCred(bindUser, bindPass): the old credentials are released and
\* replaced.
_setCred(s, user, pass) ==
    [s EXCEPT !.bindUser = user, !.bindCred = pass, !.isCredExist = TRUE]

\* _bind(): one simple-bind handshake with the stored credentials.  On a
\* connection that is not version 3 ldap_sasl_bind_s, which is passed
\* &servcred, refuses before it sends anything.  A bind the server rejects
\* leaves the connection anonymous on the server; one that never reaches
\* it leaves the server as it was.  isBinded is written on success only.
_bind(s, o) ==
    LET s1 == [s EXCEPT !.hs = Append(@, [user |-> s.bindUser,
                                           cred |-> s.bindCred]),
                        !.answer = o]
    IN  IF version # _DEFAULT_LDAP_VERSION
        THEN [s EXCEPT !.ret = "BindError"]
        ELSE IF o = "success"
        THEN [s1 EXCEPT !.isBinded = TRUE, !.srvIdentity = s.bindUser,
                        !.ret = "ok"]
        ELSE IF o = "invalidCredentials"
        THEN [s1 EXCEPT !.srvIdentity = Anonymous, !.ret = "BindError"]
        ELSE [s1 EXCEPT !.ret = "BindError"]

\* bind(rebind) without the test of isCredExist.
bind_NoCredCheck(s, rebind, o) ==
    IF s.isBinded /\ ~rebind THEN [s EXCEPT !.ret = "AlreadyBinded"]
    ELSE _bind(s, o)

\* bind(bool rebind)
bind(s, rebind, o) ==
    IF s.isBinded /\ ~rebind THEN [s EXCEPT !.ret = "AlreadyBinded"]
    ELSE IF ~s.isCredExist THEN [s EXCEPT !.ret = "NoCredentials"]
    ELSE _bind(s, o)

\* bind(bindUser, bindPass, rebind) that stores the credentials before it
\* tests isBinded.
bindAs_SetCredFirst(s, user, pass, rebind, o) ==
    LET s1 == _setCred(s, user, pass)
    IN  IF s.isBinded /\ ~rebind THEN [s1 EXCEPT !.ret = "AlreadyBinded"]
        ELSE _bind(s1, o)

\* bind(const char* bindUser, const char* bindPass, bool rebind)
bindAs(s, user, pass, rebind, o) ==
    IF s.isBinded /\ ~rebind THEN [s EXCEPT !.ret = "AlreadyBinded"]
    ELSE _bind(_setCred(s, user, pass), o)

\* -------------------------------------------------------------- releasing
\* ldap_get_values_len: the array of n values is allocated in block b of m,
\* a new block or one that was released before.
Allocate(m, n, b) ==
    IF b = Len(m) + 1 THEN Append(m, [n |-> n, freed |-> FALSE])
    ELSE [m EXCEPT ![b] = [n |-> n, freed |-> FALSE]]

\* clearBerval(ptr): nothing for NULL; else every value and then the array
\* are released.  The function has no way to tell a released array from an
\* allocated one: on a released array it reads the freed block and frees
\* it again (o), and when the block is allocated again it releases the
\* array that is there now.
clearBerval(h, m, o) ==
    IF h.null THEN [mem |-> m, ret |-> "ok"]
    ELSE IF ~m[h.blk].freed
    THEN [mem |-> [m EXCEPT ![h.blk].freed = TRUE], ret |-> "ok"]
    ELSE [mem |-> m, ret |-> IF o = "abort" THEN "crash" ELSE "ok"]

\* ------------------------------------------------------------ bookkeeping
\* lastRelease: the index in heap of the set passed to the last
\* clearBerval(); the set as it was at entry: NULL, already passed to
\* clearBerval(), its block free; changed: the call released a block.
NoRelease == [idx |-> 0, null |-> TRUE, released |-> FALSE, freed |-> FALSE,
              changed |-> FALSE]

\* lastBind: the overload called ("bind" / "bindAs"), its rebind flag, for
\* bindAs the credentials passed, and the answer its handshake gets.
\* preBind: the bind fields at entry.
NoArgs    == [op |-> "none", rebind |-> FALSE, user |-> NULL, pass |-> NULL,
              outcome |-> "success"]
BindFields(s) == [isBinded |-> s.isBinded, isCredExist |-> s.isCredExist,
                  bindUser |-> s.bindUser, bindCred |-> s.bindCred]
\* pre: the reader at entry of fetch().  more: isMorePageAvailable; onLast:
\* the cursor is on the last entry of the current result; page: the
\* current result; exhausted: q.exhausted.
\* aborted: q.aborted; cookie: pageCookie.
NoPre == [more |-> FALSE, onLast |-> FALSE, page |-> NullMsg, exhausted |-> FALSE,
          aborted |-> FALSE, cookie |-> <<>>]
\* q: the query in progress.  status: "none" before the first query() that
\* got past the attribute check, "ok" while query() and every later page
\* execution returned normally, "failed" once one threw; regular: query()
\* was called with the cursor unset, its request carried the empty cookie
\* and no page came back empty with a continuation cookie; pages: page
\* responses received; size: pageSize at query(); resized: a later page
\* was requested with another size; exhausted: fetch() has returned false
\* with isMorePageAvailable false; aborted: a fetch() of the query threw or
\* was killed inside a page execution.  Of a failed query only status and
\* aborted are kept, and its fetch() calls are not logged.
\* filter, base: those passed to the query() that started it.
NoQ   == [status |-> "none", regular |-> FALSE, pages |-> 0,
          size |-> 0, resized |-> FALSE, exhausted |-> FALSE, aborted |-> FALSE,
          filter |-> NULL, base |-> NULL]
FailedQ(aborted) == [NoQ EXCEPT !.status = "failed", !.aborted = aborted]

\* The state of the query in progress: what query() stored, the paging
\* state, the current page and the cursor.
QueryState(s) == [filter |-> s.searchFilter, base |-> s.searchBase,
                  attrs |-> s.requestedAttributes, cookie |-> s.pageCookie,
                  more |-> s.isMorePageAvailable, result |-> s.result,
                  entry |-> s.entry]

\* The cursor is on an entry of the current result.
Positioned(en, msg) == ~en.null /\ ~en.stale /\ ~msg.null

Pages(s) == Cardinality({i \in DOMAIN s.resps : s.resps[i] \in {"ok", "ok-empty"}})
Short(s) == \E i \in DOMAIN s.resps : s.resps[i] = "ok-empty"

\* ---------------------------------------------------------------- actions
\* The search fields after _start(), which sets every field except
\* pageCookie: that holds whatever the memory of the object held.  The
\* version is that of the constructor called.
InitSearch ==
    /\ version \in Versions
    /\ searchFilter = NULL
    /\ searchBase = NULL
    /\ requestedAttributes = <<>>
    /\ pageSize = _DEFAULT_PAGE_SIZE
    /\ pageCookie \in Garbage
    /\ result = NullMsg
    /\ entry = NullEntry
    /\ isMorePageAvailable = FALSE
    /\ leaked = FALSE
    /\ srvCount \in [Filters -> 0..MaxEntries]
    /\ srvPaging \in Paging
    /\ cookieSet = FALSE
    /\ lastRequests = <<>>
    /\ lastOp = "new"
    /\ lastRet = "none"
    /\ lastAttrNum = 0
    /\ lastNames = 0
    /\ pre = NoPre
    /\ preReject = <<>>
    /\ q = NoQ
    /\ log = <<>>
    /\ heap = <<>>
    /\ mem = <<>>
    /\ lastRelease = NoRelease

\* The bind fields after _start().
InitUnbound ==
    /\ isBinded = FALSE
    /\ isCredExist = FALSE
    /\ bindUser = NULL
    /\ bindCred = NULL
    /\ srvIdentity = Anonymous
    /\ lastHandshakes = <<>>
    /\ lastAnswer = "none"
    /\ lastBind = NoArgs
    /\ preBind = BindFields(Bd)

\* The bind fields after a constructor that takes credentials: it ends
\* with bind(bindUser, bindPass) and throws unless the handshake succeeds,
\* which it can on version 3 only.
InitBound ==
    /\ version = _DEFAULT_LDAP_VERSION
    /\ \E user \in Users, pass \in Passes :
           /\ isBinded = TRUE
           /\ isCredExist = TRUE
           /\ bindUser = user
           /\ bindCred = pass
           /\ srvIdentity = user
           /\ lastHandshakes = <<[user |-> user, cred |-> pass]>>
           /\ lastAnswer = "success"
           /\ lastBind = [op |-> "bindAs", rebind |-> FALSE, user |-> user,
                          pass |-> pass, outcome |-> "success"]
           /\ preBind = [isBinded |-> FALSE, isCredExist |-> FALSE,
                         bindUser |-> NULL, bindCred |-> NULL]

\* The state after ldapReader(uri) or ldapReader(uri, version).
Init ==
    /\ InitSearch
    /\ InitUnbound

\* The state after any of the four constructors.
InitBind ==
    /\ InitSearch
    /\ InitUnbound \/ InitBound

\* The process has not been killed.
Alive == lastRet # "crash"

\* The reader's fields and the request counters after a call.
Store(s) ==
    /\ searchFilter' = s.searchFilter
    /\ searchBase' = s.searchBase
    /\ requestedAttributes' = s.requestedAttributes
    /\ pageSize' = s.pageSize
    /\ pageCookie' = s.pageCookie
    /\ cookieSet' = s.cookieSet
    /\ result' = s.result
    /\ entry' = s.entry
    /\ isMorePageAvailable' = s.isMorePageAvailable
    /\ leaked' = s.leaked
    /\ lastRequests' = s.reqs
    /\ lastRet' = s.ret

SetPageSize(ps) ==
    /\ Alive
    /\ pageSize' = ps
    /\ lastOp' = "setPageSize"
    /\ preReject' = <<>>
    /\ lastRet' = "none"
    /\ lastRequests' = <<>>
    /\ lastAttrNum' = 0
    /\ lastNames' = 0
    /\ pre' = NoPre
    /\ lastRelease' = NoRelease
    /\ UNCHANGED <<searchFilter, searchBase, requestedAttributes, pageCookie,
                   result, entry, isMorePageAvailable, srvCount, srvPaging,
                   leaked, cookieSet, q, log>>
    /\ UNCHANGED <<version, bindVars, heap, mem>>

\* The environment and the outcome of a use of released memory are drawn
\* only for calls that consult them; a call that does not is taken once.
\* df: what the second release of the head of result does.  va: what the
\* read of an argument that was not passed does.
Query(f, b, attrNum, names, e, df, va) ==
    /\ Alive
    /\ va = "crash" => attrNum > names /\ ~TooMany(attrNum)
    /\ df = "abort" => /\ ~result.null /\ result.freed
                       /\ ~(attrNum > 0 /\ TooMany(attrNum))
                       /\ va = "read"
    /\ \E s \in {query(St, f, b, attrNum, names, e, df, va)} :
           /\ s.reqs = <<>> => e = Env0
           /\ Store(s)
           /\ IF s.ret = "TooManyAttributes"
              THEN UNCHANGED <<q, log>>
              ELSE /\ log' = <<>>
                   /\ q' = IF s.ret # "ok" THEN FailedQ(FALSE)
                           ELSE [status |-> "ok",
                                 regular |-> /\ entry.null
                                             /\ s.reqs[1].cookie = <<>>
                                             /\ ~Short(s),
                                 pages |-> Pages(s),
                                 size |-> pageSize, resized |-> FALSE,
                                 exhausted |-> FALSE, aborted |-> FALSE,
                                 filter |-> f, base |-> b]
    /\ lastOp' = "query"
    /\ lastAttrNum' = attrNum
    /\ lastNames' = names
    /\ preReject' = IF attrNum > 0 /\ TooMany(attrNum)
                    THEN <<QueryState(St)>> ELSE <<>>
    /\ pre' = NoPre
    /\ lastRelease' = NoRelease
    /\ UNCHANGED <<srvCount, srvPaging>>
    /\ UNCHANGED <<version, bindVars, heap, mem>>

\* ub: what the read of a released message yields, for a fetch() that
\* makes one: ldap_first_entry on a result whose head was released, or
\* ldap_next_entry on a dangling cursor.  The message allocated in its
\* place can be the head of the current result when that was allocated
\* after the release.
Fetch(e, ub) ==
    /\ Alive
    /\ Len(log) < MaxFetch
    /\ ub # "intact" =>
           /\ ~result.null
           /\ \/ entry.null /\ result.freed /\ ub # "reused"
              \/ /\ Dangling(entry, result)
                 /\ ub # "skipped"
                 /\ ub = "reused" => entry.stale /\ ~result.freed
    /\ \E s \in {fetch(St, <<e, e>>, ub)} :
           /\ s.reqs = <<>> => e = Env0
           /\ Store(s)
           /\ q' = IF s.ret \in Errors \cup {"crash"} THEN FailedQ(TRUE)
                   ELSE IF q.status = "failed" THEN q
                   ELSE [q EXCEPT !.pages = @ + Pages(s),
                                  !.regular = @ /\ ~Short(s),
                                  !.resized = @ \/ \E i \in DOMAIN s.reqs :
                                                        s.reqs[i].size # q.size,
                                  !.exhausted = @ \/ (s.ret = "false" /\
                                                       ~s.isMorePageAvailable)]
           /\ log' = IF s.ret \in Errors \cup {"crash"} \/ q.status = "failed"
                     THEN <<>>
                     ELSE Append(log, <<s.ret, Len(s.reqs)>>)
    /\ pre' = [more |-> isMorePageAvailable,
               onLast |-> Positioned(entry, result) /\ entry.pos = entry.len,
               page |-> result,
               exhausted |-> q.exhausted,
               aborted |-> q.aborted,
               cookie |-> pageCookie]
    /\ lastOp' = "fetch"
    /\ preReject' = <<>>
    /\ lastAttrNum' = 0
    /\ lastNames' = 0
    /\ lastRelease' = NoRelease
    /\ UNCHANGED <<srvCount, srvPaging>>
    /\ UNCHANGED <<version, bindVars, heap, mem>>

\* getAttribute() returns NULL (n = 0) or an array of n values in block b.
\* keep: the caller stores the pointer the call returns, to release it
\* later, or drops it.  ub: what the read of a dangling cursor does.
GetAttribute(n, b, keep, ub) ==
    /\ Alive
    /\ ub # "intact" => ub = "crash" /\ Dangling(entry, result)
    /\ \E s \in {getAttribute(St, ub)} :
           /\ Store(s)
           /\ IF s.ret = "values" /\ keep
              THEN /\ Len(heap) < MaxSets
                   /\ IF n = 0 THEN b = 0
                      ELSE b = Len(mem) + 1 \/ (b \in DOMAIN mem /\ mem[b].freed)
                   /\ heap' = Append(heap, IF n = 0 THEN NullSet
                                           ELSE [null |-> FALSE, blk |-> b,
                                                 released |-> FALSE])
                   /\ mem' = IF n = 0 THEN mem ELSE Allocate(mem, n, b)
              ELSE /\ n = 0 /\ b = 0
                   /\ UNCHANGED <<heap, mem>>
    /\ lastOp' = "getAttribute"
    /\ preReject' = <<>>
    /\ pre' = NoPre
    /\ lastAttrNum' = 0
    /\ lastNames' = 0
    /\ lastRelease' = NoRelease
    /\ UNCHANGED <<srvCount, srvPaging, q, log>>
    /\ UNCHANGED <<version, bindVars>>

\* The bind fields and the handshakes after a bind call.
StoreBind(s) ==
    /\ isBinded' = s.isBinded
    /\ isCredExist' = s.isCredExist
    /\ bindUser' = s.bindUser
    /\ bindCred' = s.bindCred
    /\ srvIdentity' = s.srvIdentity
    /\ lastHandshakes' = s.hs
    /\ lastAnswer' = s.answer
    /\ lastRet' = s.ret
    /\ preBind' = BindFields(Bd)

\* The outcome of the handshake is drawn only for calls that send one.
Bind(rebind, o) ==
    /\ \E s \in {bind(Bd, rebind, o)} :
           /\ s.hs = <<>> => o = "success"
           /\ StoreBind(s)
    /\ lastOp' = "bind"
    /\ lastBind' = [op |-> "bind", rebind |-> rebind, user |-> NULL,
                    pass |-> NULL, outcome |-> o]
    /\ UNCHANGED <<version, searchVars, heapVars>>

BindAs(user, pass, rebind, o) ==
    /\ \E s \in {bindAs(Bd, user, pass, rebind, o)} :
           /\ s.hs = <<>> => o = "success"
           /\ StoreBind(s)
    /\ lastOp' = "bind"
    /\ lastBind' = [op |-> "bindAs", rebind |-> rebind, user |-> user,
                    pass |-> pass, outcome |-> o]
    /\ UNCHANGED <<version, searchVars, heapVars>>

\* The environment is drawn only for a call that consults it: a query()
\* that passes the attribute check, a fetch() that requests a page.
QueryEnv(attrNum) ==
    IF attrNum > 0 /\ TooMany(attrNum) THEN {Env0} ELSE Env
FetchEnv(ub) ==
    IF fetch(St, <<Env0, Env0>>, ub).reqs = <<>> THEN {Env0} ELSE Env

\* The search calls of a caller that drops the value sets it gets and
\* passes the attribute names of main.cpp, or none.
Next ==
    \/ \E ps \in PageSizes : SetPageSize(ps)
    \/ \E f \in Filters, b \in Bases, n \in ExampleNums, df \in DoubleFree,
          va \in VaArg :
          \E k \in NamesPassed(n), e \in QueryEnv(n) : Query(f, b, n, k, e, df, va)
    \/ \E ub \in StaleRead : \E e \in FetchEnv(ub) : Fetch(e, ub)
    \/ \E ub \in StaleRead : GetAttribute(0, 0, FALSE, ub)

Spec == Init /\ [][Next]_vars

\* The search calls of a caller that passes up to 51 attribute names, as
\* many as it says.
NextNames ==
    \/ \E ps \in PageSizes : SetPageSize(ps)
    \/ \E f \in Filters, b \in Bases, n \in ListNums, df \in DoubleFree :
          \E e \in QueryEnv(n) : Query(f, b, n, n, e, df, "read")
    \/ \E ub \in StaleRead : \E e \in FetchEnv(ub) : Fetch(e, ub)
    \/ \E ub \in StaleRead : GetAttribute(0, 0, FALSE, ub)

SpecNames == Init /\ [][NextNames]_vars

\* The search calls of a caller that passes either of two search bases,
\* sets the page size to 1 and passes no attribute names or 51.
NextFrame ==
    \/ SetPageSize(1)
    \/ \E f \in Filters, b \in Bases2, n \in LongNums, df \in DoubleFree :
          \E e \in QueryEnv(n) : Query(f, b, n, n, e, df, "read")
    \/ \E ub \in StaleRead : \E e \in FetchEnv(ub) : Fetch(e, ub)
    \/ \E ub \in StaleRead : GetAttribute(0, 0, FALSE, ub)

SpecFrame == Init /\ [][NextFrame]_vars

\* The bind calls on a reader, which no search call reads or writes.
NextBind ==
    \/ \E rebind \in BOOLEAN, o \in BindOutcomes : Bind(rebind, o)
    \/ \E user \in Users, pass \in Passes, rebind \in BOOLEAN, o \in BindOutcomes :
          BindAs(user, pass, rebind, o)

SpecBind == InitBind /\ [][NextBind]_vars

\* clearBerval(heap[i]) by a caller that holds the value sets heap[1..].
ClearBerval(i, o) ==
    /\ Alive
    /\ i \in DOMAIN heap
    /\ \E r \in {clearBerval(heap[i], mem, o)} :
           /\ o = "abort" => r.ret = "crash"
           /\ mem' = r.mem
           /\ lastRet' = r.ret
           /\ lastRelease' = [idx |-> i, null |-> heap[i].null,
                              released |-> heap[i].released,
                              freed |-> ~heap[i].null /\ mem[heap[i].blk].freed,
                              changed |-> r.mem # mem]
    /\ heap' = IF heap[i].null THEN heap ELSE [heap EXCEPT ![i].released = TRUE]
    /\ lastOp' = "clearBerval"
    /\ UNCHANGED <<version, searchVars, bindVars>>

\* A caller that keeps the default page size and passes no attribute
\* names: it runs queries, keeps the value sets getAttribute() returns,
\* some of them NULL, and releases them in any order, any number of times.
NextRelease ==
    \/ \E f \in Filters, b \in Bases, df \in DoubleFree :
          \E e \in QueryEnv(0) : Query(f, b, 0, 0, e, df, "read")
    \/ \E ub \in StaleRead : \E e \in FetchEnv(ub) : Fetch(e, ub)
    \/ \E n \in ValueCounts, b \in 0..MaxSets, ub \in StaleRead :
          GetAttribute(n, b, TRUE, ub)
    \/ \E i \in 1..MaxSets, o \in DoubleFree : ClearBerval(i, o)

SpecRelease == Init /\ [][NextRelease]_vars

\* ----------------------------------------------------------------- claims
\* The query in progress ran as its caller expects it to: query() returned
\* normally on an object whose cursor was not set, the first request
\* carried the empty cookie, every page came back full and none failed.
Clean == q.status = "ok" /\ q.regular

\* Entries the server holds for the query in progress.
N == srvCount[searchFilter]

Ceil(a, b) == (a + b - 1) \div b

\* The last call was fetch(), it returned false, and every fetch() since
\* query() before it returned true: the first false of the query.
FirstFalse ==
    /\ lastOp = "fetch"
    /\ log # <<>>
    /\ log[Len(log)][1] = "false"
    /\ \A i \in 1..(Len(log) - 1) : log[i][1] = "true"

\* C1: after query(), fetch() returns true exactly N times before its first
\* false, N the number of entries of the server-side result, whatever the
\* page size.
C1_TrueExactlyNTimes ==
    (Clean /\ FirstFalse) => Len(log) - 1 = N

\* C2: fetch() reports no entry when none is left: before any query, after
\* a query whose result is empty with no more pages, and once fetch() has
\* returned false with no further pages, every later fetch() returns false
\* until the next query().
C2_FalseStaysFalse ==
    lastOp = "fetch" =>
        /\ q.status = "none" => lastRet = "false"
        /\ (Clean /\ N = 0) => lastRet = "false"
        /\ pre.exhausted => lastRet = "false"

\* C3: a fetch() called with the page exhausted and more pages available
\* requests the next page and positions on it, and passes over empty pages
\* that carry a cookie: it returns false only when no pages remain.
C3_FalseOnlyWhenNoPagesRemain ==
    (lastOp = "fetch" /\ q.status = "ok") =>
        /\ (pre.onLast /\ pre.more) =>
               /\ lastRequests # <<>>
               /\ lastRet = "true" => Positioned(entry, result) /\ entry.pos = 1
        /\ lastRet = "false" => ~isMorePageAvailable

\* C4: after a successful page execution isMorePageAvailable is true iff
\* the cookie of that page response is a non-empty byte sequence.
C4_MoreIffCookieNonEmpty ==
    cookieSet => (isMorePageAvailable <=> pageCookie # <<>>)

\* C5: once isMorePageAvailable is false no fetch() sends a search request;
\* apart from fetch() only query() sends one.
C5_NoSearchWhenNoMore ==
    /\ (lastOp = "fetch" /\ ~pre.more) => lastRequests = <<>>
    /\ lastOp \in {"getAttribute", "setPageSize"} => lastRequests = <<>>

\* C5 witness: a fetch() on the last entry of the last of several pages
\* found isMorePageAvailable false and returned false.
C5_Witness ==
    /\ lastOp = "fetch" /\ ~pre.more /\ pre.onLast
    /\ lastRet = "false"
    /\ q.pages >= 2

\* C6: iterating N >= 1 entries to exhaustion with page size P takes exactly
\* ceil(N/P) page executions, the one made by query() included.
C6_CeilPageExecutions ==
    (Clean /\ ~q.resized /\ FirstFalse /\ N >= 1) => q.pages = Ceil(N, q.size)

\* C7: with 3 entries and page size 2 the fetch() calls after query() return
\* true, true, true, false, the second page being requested inside the third
\* call and nothing by the fourth; and a next page is requested only by a
\* fetch() called with the cursor on the last entry of the current page.
C7_Scenario ==
    <<<<"true", 0>>, <<"true", 0>>, <<"true", 1>>, <<"false", 0>>>>

C7_LazyPageFetch ==
    /\ (Clean /\ ~q.resized /\ N = 3 /\ q.size = 2) =>
           \A i \in DOMAIN log : i <= 4 => log[i] = C7_Scenario[i]
    /\ (lastOp = "fetch" /\ q.status = "ok" /\ lastRequests # <<>>) => pre.onLast

\* C8: after a successful query() the first fetch() positions the cursor on
\* the first entry of the new first page and returns true iff that page is
\* non-empty.
C8_FirstFetchOnFirstEntry ==
    (lastOp = "fetch" /\ Len(log) = 1 /\ q.status = "ok") =>
        /\ lastRet = "true" <=> pre.page.len > 0
        /\ lastRet = "true" =>
               /\ Positioned(entry, result)
               /\ entry.pos = 1
               /\ result = pre.page

\* C9: getAttribute() throws unless an entry of the current query is
\* positioned; it never reads an entry of a discarded result.
C9_NoEntryNoRead ==
    (lastOp = "getAttribute" /\ q.status # "failed") =>
        (lastRet = "values" <=> Positioned(entry, result))

\* C10: query() with more than 50 attribute names throws and sends no search
\* request; with exactly 50 names passed it is accepted: the 50 names are
\* stored and any search it sends carries them.
C10_TooManyAttributes ==
    lastOp = "query" =>
        /\ lastAttrNum > _DEFAULT_MAX_NUMBER_OF_ATTRIBUTES =>
               /\ lastRet = "TooManyAttributes"
               /\ lastRequests = <<>>
        /\ (/\ lastAttrNum = _DEFAULT_MAX_NUMBER_OF_ATTRIBUTES
            /\ lastNames = lastAttrNum) =>
               /\ lastRet # "TooManyAttributes"
               /\ requestedAttributes = AttrList(lastAttrNum)
               /\ \A i \in DOMAIN lastRequests :
                      lastRequests[i].attrs = AttrList(lastAttrNum)

\* C10 witness: a query() with 51 names was rejected while an earlier query
\* was in progress.
C10_Witness ==
    /\ lastOp = "query"
    /\ lastAttrNum = _DEFAULT_MAX_NUMBER_OF_ATTRIBUTES + 1
    /\ lastRet = "TooManyAttributes"
    /\ q.status = "ok"

\* C11: bind() on a reader whose credentials were never set throws the
\* missing-credentials error, sends no handshake and leaves the session
\* unbound, whatever its rebind flag.
C11_BindNeedsCredentials ==
    (lastOp = "bind" /\ lastBind.op = "bind" /\ ~preBind.isCredExist) =>
        /\ lastRet = "NoCredentials"
        /\ lastHandshakes = <<>>
        /\ ~isBinded
        /\ srvIdentity = Anonymous

\* C11 witness: bind(true) was called with no credentials set and threw.
C11_Witness ==
    /\ lastOp = "bind" /\ lastBind.op = "bind" /\ lastBind.rebind
    /\ ~preBind.isCredExist
    /\ lastRet = "NoCredentials"

\* C12: a bind call of either overload with rebind = false on a bound
\* session throws the already-bound error, sends no handshake and leaves
\* isBinded and the stored credentials as they were.
C12_AlreadyBound ==
    (lastOp = "bind" /\ preBind.isBinded /\ ~lastBind.rebind) =>
        /\ lastRet = "AlreadyBinded"
        /\ lastHandshakes = <<>>
        /\ BindFields(Bd) = preBind
        /\ isBinded

\* C12 witness: bind(user2, secret2, false) on a session bound as another
\* user threw and the stored user is still the earlier one.
C12_Witness ==
    /\ lastOp = "bind" /\ lastBind.op = "bindAs" /\ ~lastBind.rebind
    /\ preBind.isBinded
    /\ srvIdentity = preBind.bindUser
    /\ lastBind.user # preBind.bindUser
    /\ lastRet = "AlreadyBinded"

\* C13: on a bound session bind(user2, secret2, true) that the server
\* accepts sends one handshake with (user2, secret2), returns normally and
\* leaves the session bound with (user2, secret2) stored.
C13_RebindReplacesIdentity ==
    (/\ lastOp = "bind" /\ lastBind.op = "bindAs" /\ lastBind.rebind
     /\ preBind.isBinded
     /\ lastBind.outcome = "success") =>
        /\ lastRet = "ok"
        /\ lastHandshakes = <<[user |-> lastBind.user, cred |-> lastBind.pass]>>
        /\ isBinded
        /\ bindUser = lastBind.user /\ bindCred = lastBind.pass
        /\ srvIdentity = lastBind.user

\* C13 witness: a session bound as one user was rebound as another with
\* another secret.
C13_Witness ==
    /\ lastOp = "bind" /\ lastBind.op = "bindAs" /\ lastBind.rebind
    /\ preBind.isBinded
    /\ lastBind.outcome = "success"
    /\ preBind.bindUser # lastBind.user /\ preBind.bindCred # lastBind.pass
    /\ srvIdentity = lastBind.user

\* C14: once a page execution made by fetch() has failed, every later
\* fetch() returns false and leaves no entry positioned, until the next
\* query().
C14_FailedFetchDiscardsQuery ==
    (lastOp = "fetch" /\ pre.aborted) =>
        /\ lastRet = "false"
        /\ entry.null

\* C15: a query() whose request reaches a server that rejects or ignores
\* the paged-results control throws a search error, and no fetch() against
\* such a server returns an entry.
C15_NoPagingNoResult ==
    /\ (lastOp = "query" /\ srvPaging # "paged" /\ lastRequests # <<>>) =>
           lastRet = "SearchError"
    /\ (lastOp = "fetch" /\ srvPaging # "paged") => lastRet # "true"

\* C16: clearBerval() of a NULL set or of a set that was already passed to
\* clearBerval() returns normally and releases nothing: releasing twice is
\* as releasing once.
C16_ReleaseIdempotent ==
    (lastOp = "clearBerval" /\ (lastRelease.null \/ lastRelease.released)) =>
        /\ lastRet = "ok"
        /\ ~lastRelease.changed

\* C17: the request sent by query() carries the empty cookie, on a new
\* object and on one whose earlier query had more pages; a request sent by
\* fetch() carries the cookie of the page response before it.
C17_FirstRequestEmptyCookie ==
    /\ (lastOp = "query" /\ lastRequests # <<>>) =>
           lastRequests[1].cookie = <<>>
    /\ (lastOp = "fetch" /\ lastRequests # <<>> /\ q.status = "ok") =>
           lastRequests[1].cookie = pre.cookie

\* C18: at most one page is allocated and not released: no page other than
\* the one result points to is still allocated.
C18_OnePageMaterialized ==
    ~(leaked /\ ~result.null)

\* C19: query(filter, base), which is query(filter, base, 0), sends a
\* request with no attribute list (all attributes), whatever list an
\* earlier query() stored.
C19_NoNamesAllAttributes ==
    (lastOp = "query" /\ lastAttrNum = 0 /\ lastRequests # <<>>) =>
        lastRequests[1].attrs = <<>>

\* C20: a query() rejected for too many attribute names leaves the state
\* of the query in progress as it was: filter, base, attribute list,
\* cookie, isMorePageAvailable, result and cursor; a later fetch() of the
\* query in progress requests its page with the filter and base that
\* query was started with.
C20_RejectedQueryFrame ==
    /\ (lastOp = "query" /\ lastRet = "TooManyAttributes") =>
           /\ preReject # <<>>
           /\ QueryState(St) = preReject[1]
    /\ (lastOp = "fetch" /\ q.status = "ok" /\ lastRequests # <<>>) =>
           /\ lastRequests[1].filter = q.filter
           /\ lastRequests[1].base = q.base

\* C21: isBinded tells the outcome of the most recent handshake sent: it is
\* true only if that handshake succeeded, so a bind call with rebind =
\* false is rejected as already bound only then.
C21_BoundFlagIsLastHandshake ==
    /\ isBinded => lastAnswer = "success"
    /\ (lastOp = "bind" /\ lastRet = "AlreadyBinded") => lastAnswer = "success"

====
